---- MODULE Spec2Model ----
(***************************************************************************)
(* Model of BTrack's OnsetDetectionFunction (src/OnsetDetectionFunction.cpp) *)
(*                                                                         *)
(* Numbers.  The code computes in float/double; the model computes in      *)
(* integers:                                                               *)
(*   - audio samples and energies are whole numbers (1 stands for 1.0);    *)
(*   - window weights, transform input/output, magnitudes and the value    *)
(*     returned by the spectral metrics are in hundredths (100 = 1.0);     *)
(*   - phase angles are in units of pi/4 (Pi = 4), rounded to the nearest  *)
(*     unit; the phase deviation metric returns a sum of such angles;      *)
(*   - cosines are in thousandths.                                         *)
(* Arrays are functions on 0 .. size-1, as in the code.                    *)
(***************************************************************************)
EXTENDS Integers, Sequences, FiniteSets, TLC

\* ---------------------------------------------------------------- bounds
\* sample calls explored per configuration, in each specification
MaxCalls == 2
MaxFrameCalls == 3
MaxSilentCalls == 2
MaxMetricCalls == 2
MaxRepeatCalls == 4
\* FFT plans allocated over the whole run
MaxPlans == 2

\* ------------------------------------------------------------ input sets
Samples == {-1, 0, 1}
\* <<hopSize, frameSize>>: the pairs with 1 <= hopSize <= frameSize <= 3 and
\* hopSize <= 2, and one pair of each other kind
Sizes == {<<1, 1>>, <<1, 2>>, <<2, 2>>, <<1, 3>>, <<2, 3>>,
          <<0, 2>>, <<-1, 2>>, <<2, 1>>, <<1, -1>>}
\* what a never-written transform input entry may hold (hundredths)
Garbage == {[re |-> 0, im |-> 0], [re |-> -100, im |-> 0]}

\* ----------------------------------- OnsetDetectionFunctionType, WindowType
EnergyEnvelope == 0
EnergyDifference == 1
SpectralDifference == 2
SpectralDifferenceHWR == 3
PhaseDeviation == 4
ComplexSpectralDifference == 5
ComplexSpectralDifferenceHWR == 6
HighFrequencyContent == 7
HighFrequencySpectralDifference == 8
HighFrequencySpectralDifferenceHWR == 9
\* a value that is none of the ten cases of the switch
UnknownType == 10

RectangularWindow == 0
HanningWindow == 1
HammingWindow == 2
BlackmanWindow == 3
TukeyWindow == 4
\* a value that is none of the five cases of the switch
UnknownWindow == 5

Types == EnergyEnvelope .. UnknownType
WindowTypes == RectangularWindow .. UnknownWindow
SpectralTypes == SpectralDifference .. HighFrequencySpectralDifferenceHWR
MagnitudeOnlyTypes ==
    {SpectralDifference, SpectralDifferenceHWR, HighFrequencyContent,
     HighFrequencySpectralDifference, HighFrequencySpectralDifferenceHWR}
ComplexTypes == {ComplexSpectralDifference, ComplexSpectralDifferenceHWR}

\* ------------------------------------------------------------ arithmetic
\* pi, in phase units
Pi == 4
\* the result of 0/0 and of cos(inf): a value no computation produces
NaN == -32768

Abs(x) == IF x < 0 THEN -x ELSE x

\* division rounding towards zero, b > 0
Quot(a, b) == IF a >= 0 THEN a \div b ELSE -((-a) \div b)

RECURSIVE SqrtIter(_, _)
SqrtIter(n, x) ==
    LET y == (x + (n \div x)) \div 2
    IN  IF y >= x THEN x ELSE SqrtIter(n, y)

\* sqrt, rounded down
Sqrt(n) == IF n <= 0 THEN 0 ELSE SqrtIter(n, n)

\* cos(2*pi*k/12) in thousandths
Cos12(k) ==
    LET t == <<1000, 866, 500, 0, -500, -866, -1000, -866, -500, 0, 500, 866>>
    IN  t[(k % 12) + 1]

Sin12(k) == Cos12(k - 3)

\* cos of an angle in phase units, in thousandths
Cos(a) ==
    LET t == <<1000, 707, 0, -707, -1000, -707, 0, 707>>
    IN  t[(a % (2 * Pi)) + 1]

\* atan2(y, x) in phase units, rounded to the nearest unit, in [-pi, pi]
\* (tan(pi/8) = 0.414, tan(3*pi/8) = 2.414)
Atan2(y, x) ==
    LET ax == Abs(x)
        ay == Abs(y)
        b  == IF 1000 * ay < 414 * ax THEN 0
              ELSE IF 1000 * ay <= 2414 * ax THEN 1 ELSE 2
    IN  IF x = 0 /\ y = 0 THEN 0
        ELSE IF x >= 0 /\ y >= 0 THEN b
        ELSE IF x < 0 /\ y >= 0 THEN Pi - b
        ELSE IF x < 0 THEN b - Pi
        ELSE -b

RECURSIVE SumOver(_, _)
\* sum of f[i] for i in the finite set S of indices
SumOver(f, S) ==
    IF S = {} THEN 0
    ELSE LET i == CHOOSE j \in S : TRUE
         IN  f[i] + SumOver(f, S \ {i})

Zeros(n) == [i \in 0 .. n - 1 |-> 0]

\* ------------------------------------------------------- window generator
\* the angle 2*pi*(n/N) as twelfths of a turn (exact when N divides 12*n)
Twelfths(n, N) == (12 * n) \div N

calculateRectangularWindow(fs) == [n \in 0 .. fs - 1 |-> 100]

calculateHanningWindow(fs) ==
    LET N == fs - 1
    IN  [n \in 0 .. fs - 1 |->
            IF N = 0 THEN NaN
            ELSE Quot(50 * (1000 - Cos12(Twelfths(n, N))), 1000)]

calclulateHammingWindow(fs) ==
    LET N == fs - 1
    IN  [n \in 0 .. fs - 1 |->
            IF N = 0 THEN NaN
            ELSE 54 - Quot(46 * Cos12(Twelfths(n, N)), 1000)]

calculateBlackmanWindow(fs) ==
    LET N == fs - 1
    IN  [n \in 0 .. fs - 1 |->
            IF N = 0 THEN NaN
            ELSE 42 - Quot(50 * Cos12(Twelfths(n, N)), 1000)
                    + Quot(8 * Cos12(2 * Twelfths(n, N)), 1000)]

\* alpha = 0.5, so alpha*(N/2) = N/4 and (2*n_val)/(alpha*N) = 4*n_val/N
calculateTukeyWindow(fs) ==
    LET N == fs - 1
        first == -Quot(fs, 2) + 1
    IN  [n \in 0 .. fs - 1 |->
            LET n_val == first + n
            IN  IF n_val >= 0 /\ 4 * n_val <= N THEN 100
                ELSE IF n_val <= 0 /\ 4 * n_val >= -N THEN 100
                ELSE IF N = 0 THEN NaN
                ELSE Quot(50 * (1000 + Cos12(Twelfths(2 * n_val, N) - 6)), 1000)]

\* the switch on windowType in initialise
WindowFor(wt, fs) ==
    CASE wt = RectangularWindow -> calculateRectangularWindow(fs)
      [] wt = HanningWindow -> calculateHanningWindow(fs)
      [] wt = HammingWindow -> calclulateHammingWindow(fs)
      [] wt = BlackmanWindow -> calculateBlackmanWindow(fs)
      [] wt = TukeyWindow -> calculateTukeyWindow(fs)
      [] OTHER -> calculateHanningWindow(fs)

\* ------------------------------------------------- spectral transform stage
\* the loop of performFFT: the entries of complexIn it writes, the others kept
WindowedInput(cin, fr, win, fs) ==
    LET fsize2 == Quot(fs, 2)
    IN  [i \in DOMAIN cin |->
            IF 0 <= i /\ i < fsize2
              THEN [re |-> fr[i + fsize2] * win[i + fsize2], im |-> 0]
            ELSE IF fsize2 <= i /\ i < 2 * fsize2
              THEN [re |-> fr[i - fsize2] * win[i - fsize2], im |-> 0]
            ELSE cin[i]]

\* fftw_execute of the forward plan of size fs: out[k] = sum in[n]*e^(-2*pi*i*n*k/fs)
ForwardDFT(cin, fs) ==
    [k \in 0 .. fs - 1 |->
        LET a(n) == Twelfths(n * k, fs)
            res == [n \in 0 .. fs - 1 |->
                      cin[n].re * Cos12(a(n)) + cin[n].im * Sin12(a(n))]
            ims == [n \in 0 .. fs - 1 |->
                      cin[n].im * Cos12(a(n)) - cin[n].re * Sin12(a(n))]
        IN  [re |-> Quot(SumOver(res, 0 .. fs - 1), 1000),
             im |-> Quot(SumOver(ims, 0 .. fs - 1), 1000)]]

\* sqrt(pow(re,2) + pow(im,2))
Magnitude(c) == Sqrt(c.re * c.re + c.im * c.im)

\* atan2(im, re)
PhaseOf(c) == Atan2(c.im, c.re)

\* magSpec as the metrics from highFrequencyContent on and the phase metrics fill it
FullMagSpec(cout, fs) == [i \in 0 .. fs - 1 |-> Magnitude(cout[i])]

\* magSpec as spectralDifference fills it: (fs/2)+1 bins computed, the rest mirrored
MirroredMagSpec(cout, fs) ==
    [i \in 0 .. fs - 1 |->
        IF i < Quot(fs, 2) + 1 THEN Magnitude(cout[i]) ELSE Magnitude(cout[fs - i])]

PhaseSpec(cout, fs) == [i \in 0 .. fs - 1 |-> PhaseOf(cout[i])]

RECURSIVE princarg(_)
princarg(phaseVal) ==
    IF phaseVal <= -Pi THEN princarg(phaseVal + 2 * Pi)
    ELSE IF phaseVal > Pi THEN princarg(phaseVal - 2 * Pi)
    ELSE phaseVal

\* the first fs entries of old replaced by those of new (a loop i < fs storing new[i])
Stored(old, new, fs) ==
    [i \in DOMAIN old |-> IF i < fs THEN new[i] ELSE old[i]]


\* --------------------------------------------------- detection functions
\* Each takes the frame or the transform output and the history, and gives the
\* returned sample with the history as the call leaves it.
Result(odf, pm, pp, pp2, pe) ==
    [odfSample |-> odf, prevMagSpec |-> pm, prevPhase |-> pp, prevPhase2 |-> pp2,
     prevEnergySum |-> pe]

\* sum of frame[i]*frame[i], i < fs
FrameEnergy(fr, fs) == SumOver([i \in 0 .. fs - 1 |-> fr[i] * fr[i]], 0 .. fs - 1)

energyEnvelope(fr, fs, pm, pp, pp2, pe) ==
    Result(FrameEnergy(fr, fs), pm, pp, pp2, pe)

\* energyDifference without the clamp of negative differences
energyDifferenceUnclamped(fr, fs, pm, pp, pp2, pe) ==
    LET sum == FrameEnergy(fr, fs)
    IN  Result(sum - pe, pm, pp, pp2, sum)

energyDifference(fr, fs, pm, pp, pp2, pe) ==
    LET sum == FrameEnergy(fr, fs)
        sample == sum - pe
    IN  Result(IF sample > 0 THEN sample ELSE 0, pm, pp, pp2, sum)

\* spectralDifference without the store of the magnitudes
spectralDifferenceNotStoring(cout, fs, pm, pp, pp2, pe) ==
    LET magSpec == MirroredMagSpec(cout, fs)
        diff == [i \in 0 .. fs - 1 |-> Abs(magSpec[i] - pm[i])]
    IN  Result(SumOver(diff, 0 .. fs - 1), pm, pp, pp2, pe)

spectralDifference(cout, fs, pm, pp, pp2, pe) ==
    LET magSpec == MirroredMagSpec(cout, fs)
        diff == [i \in 0 .. fs - 1 |-> Abs(magSpec[i] - pm[i])]
    IN  Result(SumOver(diff, 0 .. fs - 1), Stored(pm, magSpec, fs), pp, pp2, pe)

spectralDifferenceHWR(cout, fs, pm, pp, pp2, pe) ==
    LET magSpec == MirroredMagSpec(cout, fs)
        diff == [i \in 0 .. fs - 1 |->
                    IF magSpec[i] - pm[i] > 0 THEN magSpec[i] - pm[i] ELSE 0]
    IN  Result(SumOver(diff, 0 .. fs - 1), Stored(pm, magSpec, fs), pp, pp2, pe)

\* phaseDeviation storing the magnitudes as well
phaseDeviationStoringMagnitudes(cout, fs, pm, pp, pp2, pe) ==
    LET phase == PhaseSpec(cout, fs)
        magSpec == FullMagSpec(cout, fs)
        pdev == [i \in 0 .. fs - 1 |->
                    IF magSpec[i] > 10
                      THEN Abs(princarg(phase[i] - (2 * pp[i]) + pp2[i]))
                      ELSE 0]
    IN  Result(SumOver(pdev, 0 .. fs - 1), Stored(pm, magSpec, fs),
               Stored(pp, phase, fs), Stored(pp2, pp, fs), pe)

phaseDeviation(cout, fs, pm, pp, pp2, pe) ==
    LET phase == PhaseSpec(cout, fs)
        magSpec == FullMagSpec(cout, fs)
        pdev == [i \in 0 .. fs - 1 |->
                    IF magSpec[i] > 10
                      THEN Abs(princarg(phase[i] - (2 * pp[i]) + pp2[i]))
                      ELSE 0]
    IN  Result(SumOver(pdev, 0 .. fs - 1), pm,
               Stored(pp, phase, fs), Stored(pp2, pp, fs), pe)

\* sqrt(pow(mag,2) + pow(prevMag,2) - 2*mag*prevMag*cos(phaseDeviation))
ComplexDistance(mag, prevMag, dev) ==
    Sqrt(mag * mag + prevMag * prevMag - Quot(2 * mag * prevMag * Cos(dev), 1000))

complexSpectralDifference(cout, fs, pm, pp, pp2, pe) ==
    LET phase == PhaseSpec(cout, fs)
        magSpec == FullMagSpec(cout, fs)
        csd == [i \in 0 .. fs - 1 |->
                  ComplexDistance(magSpec[i], pm[i], phase[i] - (2 * pp[i]) + pp2[i])]
    IN  Result(SumOver(csd, 0 .. fs - 1), Stored(pm, magSpec, fs),
               Stored(pp, phase, fs), Stored(pp2, pp, fs), pe)

complexSpectralDifferenceHWR(cout, fs, pm, pp, pp2, pe) ==
    LET phase == PhaseSpec(cout, fs)
        magSpec == FullMagSpec(cout, fs)
        csd == [i \in 0 .. fs - 1 |->
                  IF magSpec[i] - pm[i] > 0
                    THEN ComplexDistance(magSpec[i], pm[i],
                                         phase[i] - (2 * pp[i]) + pp2[i])
                    ELSE 0]
    IN  Result(SumOver(csd, 0 .. fs - 1), Stored(pm, magSpec, fs),
               Stored(pp, phase, fs), Stored(pp2, pp, fs), pe)

highFrequencyContent(cout, fs, pm, pp, pp2, pe) ==
    LET magSpec == FullMagSpec(cout, fs)
        term == [i \in 0 .. fs - 1 |-> magSpec[i] * (i + 1)]
    IN  Result(SumOver(term, 0 .. fs - 1), Stored(pm, magSpec, fs), pp, pp2, pe)

highFrequencySpectralDifference(cout, fs, pm, pp, pp2, pe) ==
    LET magSpec == FullMagSpec(cout, fs)
        term == [i \in 0 .. fs - 1 |-> Abs(magSpec[i] - pm[i]) * (i + 1)]
    IN  Result(SumOver(term, 0 .. fs - 1), Stored(pm, magSpec, fs), pp, pp2, pe)

highFrequencySpectralDifferenceHWR(cout, fs, pm, pp, pp2, pe) ==
    LET magSpec == FullMagSpec(cout, fs)
        term == [i \in 0 .. fs - 1 |->
                    IF magSpec[i] - pm[i] > 0
                      THEN (magSpec[i] - pm[i]) * (i + 1) ELSE 0]
    IN  Result(SumOver(term, 0 .. fs - 1), Stored(pm, magSpec, fs), pp, pp2, pe)

\* the switch on onsetDetectionFunctionType, with performFFT run by the metrics
\* that call it: the returned sample, and the history, frame and complexIn after
\* the call
Sample(type, fr, cin, win, fs, pm, pp, pp2, pe) ==
    LET cin2 == WindowedInput(cin, fr, win, fs)
        cout == ForwardDFT(cin2, fs)
        time(r) == r @@ [frame |-> fr, complexIn |-> cin]
        freq(r) == r @@ [frame |-> fr, complexIn |-> cin2]
    IN  CASE type = EnergyEnvelope -> time(energyEnvelope(fr, fs, pm, pp, pp2, pe))
          [] type = EnergyDifference -> time(energyDifference(fr, fs, pm, pp, pp2, pe))
          [] type = SpectralDifference ->
                freq(spectralDifference(cout, fs, pm, pp, pp2, pe))
          [] type = SpectralDifferenceHWR ->
                freq(spectralDifferenceHWR(cout, fs, pm, pp, pp2, pe))
          [] type = PhaseDeviation -> freq(phaseDeviation(cout, fs, pm, pp, pp2, pe))
          [] type = ComplexSpectralDifference ->
                freq(complexSpectralDifference(cout, fs, pm, pp, pp2, pe))
          [] type = ComplexSpectralDifferenceHWR ->
                freq(complexSpectralDifferenceHWR(cout, fs, pm, pp, pp2, pe))
          [] type = HighFrequencyContent ->
                freq(highFrequencyContent(cout, fs, pm, pp, pp2, pe))
          [] type = HighFrequencySpectralDifference ->
                freq(highFrequencySpectralDifference(cout, fs, pm, pp, pp2, pe))
          [] type = HighFrequencySpectralDifferenceHWR ->
                freq(highFrequencySpectralDifferenceHWR(cout, fs, pm, pp, pp2, pe))
          [] OTHER -> time(Result(1, pm, pp, pp2, pe))

\* ---------------------------------------------------------- frame assembler
\* the indices of frame the two loops of calculateOnsetDetectionFunctionSample use
FrameAccesses(fs, hs) ==
    {i : i \in 0 .. (fs - hs) - 1} \cup {i + hs : i \in 0 .. (fs - hs) - 1}
        \cup ((fs - hs) .. (fs - 1))

\* some access of the two loops falls outside the frame vector
FrameAccessOutOfRange(fr, fs, hs) == \E a \in FrameAccesses(fs, hs) : a \notin DOMAIN fr

\* the shift moving every sample by one position whatever the hop size
ShiftedFrameByOne(fr, fs, hs, buffer, g) ==
    [i \in DOMAIN fr |->
        IF fs - hs <= i /\ i < fs THEN buffer[i - (fs - hs)]
        ELSE IF 0 <= i /\ i < fs - hs
          THEN (IF (i + 1) \in DOMAIN fr THEN fr[i + 1] ELSE g)
        ELSE fr[i]]

\* frame after the two loops; the writes that fall outside the vector are not in it,
\* a read from outside it yields g
ShiftedFrame(fr, fs, hs, buffer, g) ==
    [i \in DOMAIN fr |->
        IF fs - hs <= i /\ i < fs THEN buffer[i - (fs - hs)]
        ELSE IF 0 <= i /\ i < fs - hs
          THEN (IF hs >= 0 /\ (i + hs) \in DOMAIN fr THEN fr[i + hs] ELSE g)
        ELSE fr[i]]

\* -------------------------------------------------------------------- state
VARIABLES
    alive,                       \* an OnsetDetectionFunction object exists
    initialised, hopSize, frameSize, onsetDetectionFunctionType, windowType,
    frame, window, prevMagSpec, prevPhase, prevPhase2, prevEnergySum,
    complexIn,                   \* the transform input buffer
    p,                           \* the FFT plan (with its two buffers): an index of plans
    plans,                       \* plans[k]: how often plan k has been destroyed
    last,                        \* the latest call made
    outcome,                     \* how it ended: "ok", "threw" or "crashed"
    odfSample,                   \* what the latest sample call returned
    calls,                       \* the sample calls made since the latest initialise
    oob,                         \* the latest sample call used frame outside its bounds
    stream,                      \* observer: the samples supplied since the latest
                                 \* initialise
    ref                          \* observer: an engine built afresh with the same sizes
                                 \* and window whose transform input starts as zeros,
                                 \* given the same sample calls

config == <<hopSize, frameSize, onsetDetectionFunctionType, windowType>>
buffers == <<frame, window, prevMagSpec, prevPhase, prevPhase2, prevEnergySum, complexIn>>
vars == <<alive, initialised, config, buffers, p, plans, last, outcome, odfSample,
          calls, oob, stream, ref>>

Min(a, b) == IF a < b THEN a ELSE b

Zero == [re |-> 0, im |-> 0]

\* the buffers of an engine right after construction with frame size fs, its
\* transform input holding c in every entry
FreshEngine(fs, c) ==
    [frame |-> Zeros(fs), prevMagSpec |-> Zeros(fs), prevPhase |-> Zeros(fs),
     prevPhase2 |-> Zeros(fs), prevEnergySum |-> 0,
     complexIn |-> [i \in 0 .. fs - 1 |-> c], odfSample |-> 0]

\* no object: every field at a fixed value
NoObject ==
    /\ alive' = FALSE
    /\ initialised' = FALSE
    /\ hopSize' = 0 /\ frameSize' = 0
    /\ onsetDetectionFunctionType' = ComplexSpectralDifferenceHWR
    /\ windowType' = HanningWindow
    /\ frame' = Zeros(0) /\ window' = Zeros(0) /\ prevMagSpec' = Zeros(0)
    /\ prevPhase' = Zeros(0) /\ prevPhase2' = Zeros(0) /\ prevEnergySum' = 0
    /\ complexIn' = Zeros(0)
    /\ p' = 0

Init ==
    /\ alive = FALSE
    /\ initialised = FALSE
    /\ hopSize = 0 /\ frameSize = 0
    /\ onsetDetectionFunctionType = ComplexSpectralDifferenceHWR
    /\ windowType = HanningWindow
    /\ frame = Zeros(0) /\ window = Zeros(0) /\ prevMagSpec = Zeros(0)
    /\ prevPhase = Zeros(0) /\ prevPhase2 = Zeros(0) /\ prevEnergySum = 0
    /\ complexIn = Zeros(0)
    /\ p = 0
    /\ plans = << >>
    /\ last = "none" /\ outcome = "ok" /\ odfSample = 0
    /\ calls = 0 /\ oob = FALSE
    /\ stream = << >>
    /\ ref = FreshEngine(0, Zero)

\* fftw_destroy_plan(p), fftw_free(complexIn), fftw_free(complexOut)
Destroyed(pl, k) == [pl EXCEPT ![k] = Min(@ + 1, 2)]

\* the history loop of initialise and prevEnergySum = 0.0, on vectors resized to fs
ResetHistory(fs) ==
    /\ prevMagSpec' = Zeros(fs)
    /\ prevPhase' = Zeros(fs)
    /\ prevPhase2' = Zeros(fs)
    /\ frame' = Zeros(fs)
    /\ prevEnergySum' = 0

\* initialise(hopSize_, frameSize_, onsetDetectionFunctionType_, windowType_), called
\* on an object whose initialised flag is wasInit; name is the caller; g is what
\* the memory fftw_malloc returns for complexIn holds.
\*  - an initialised engine destroys its plan first; destroying a plan that is
\*    already destroyed is undefined: the process may crash there or go on;
\*  - frame.resize(frameSize) with a negative size throws std::length_error, after
\*    the four configuration fields are assigned and before anything else is.
Initialise(hs, fs, type, wt, wasInit, name, g) ==
    LET freed == IF wasInit THEN Destroyed(plans, p) ELSE plans
        twice == wasInit /\ plans[p] >= 1
    IN  /\ last' = name
        /\ odfSample' = 0 /\ calls' = 0 /\ oob' = FALSE
        /\ \/ /\ twice
              /\ outcome' = "crashed"
              /\ plans' = freed
              /\ UNCHANGED <<alive, initialised, config, buffers, p>>
           \/ /\ fs < 0
              /\ outcome' = "threw"
              /\ plans' = freed
              /\ IF name = "construct"
                   THEN NoObject
                   ELSE /\ hopSize' = hs /\ frameSize' = fs
                        /\ onsetDetectionFunctionType' = type /\ windowType' = wt
                        /\ UNCHANGED <<alive, initialised, buffers, p>>
           \/ /\ fs >= 0
              /\ outcome' = "ok"
              /\ alive' = TRUE
              /\ hopSize' = hs /\ frameSize' = fs
              /\ onsetDetectionFunctionType' = type /\ windowType' = wt
              /\ window' = WindowFor(wt, fs)
              /\ ResetHistory(fs)
              /\ complexIn' = [i \in 0 .. fs - 1 |-> g]
              /\ plans' = Append(freed, 0)
              /\ p' = Len(freed) + 1
              /\ initialised' = TRUE

Running == outcome # "crashed"

\* OnsetDetectionFunction(hopSize_, frameSize_)
Construct2(hs, fs, g) ==
    /\ Running /\ ~alive
    /\ Initialise(hs, fs, ComplexSpectralDifferenceHWR, HanningWindow, FALSE,
                  "construct", g)

\* OnsetDetectionFunction(hopSize_, frameSize_, onsetDetectionFunctionType_, windowType_)
Construct4(hs, fs, type, wt, g) ==
    /\ Running /\ ~alive
    /\ Initialise(hs, fs, type, wt, FALSE, "construct", g)

\* initialise(hopSize_, frameSize_)
Initialise2(hs, fs, g) ==
    /\ Running /\ alive
    /\ Initialise(hs, fs, onsetDetectionFunctionType, windowType, initialised,
                  "initialise", g)

\* initialise(hopSize_, frameSize_, onsetDetectionFunctionType_, windowType_)
Initialise4(hs, fs, type, wt, g) ==
    /\ Running /\ alive
    /\ Initialise(hs, fs, type, wt, initialised, "initialise", g)

\* ~OnsetDetectionFunction()
Destroy ==
    /\ Running /\ alive
    /\ last' = "destroy"
    /\ plans' = IF initialised THEN Destroyed(plans, p) ELSE plans
    /\ \/ /\ initialised /\ plans[p] >= 1
          /\ outcome' = "crashed"
          /\ UNCHANGED <<alive, initialised, config, buffers, p>>
       \/ /\ outcome' = "ok"
          /\ NoObject
    /\ odfSample' = 0 /\ calls' = 0 /\ oob' = FALSE

\* a setter that also clears the magnitude history
SetOnsetDetectionFunctionTypeResetting(type) ==
    /\ Running /\ alive
    /\ onsetDetectionFunctionType' = type
    /\ prevMagSpec' = Zeros(frameSize)
    /\ last' = "setType" /\ outcome' = "ok"
    /\ UNCHANGED <<alive, initialised, hopSize, frameSize, windowType, frame, window,
                   prevPhase, prevPhase2, prevEnergySum, complexIn, p, plans,
                   odfSample, calls, oob>>

\* setOnsetDetectionFunctionType(onsetDetectionFunctionType_)
SetOnsetDetectionFunctionType(type) ==
    /\ Running /\ alive
    /\ onsetDetectionFunctionType' = type
    /\ last' = "setType" /\ outcome' = "ok"
    /\ UNCHANGED <<alive, initialised, hopSize, frameSize, windowType, buffers, p,
                   plans, odfSample, calls, oob>>

\* one sample call on the buffers e of an engine: the two frame loops, then the
\* switch
Step(e, type, win, fs, hs, buffer, g) ==
    LET fr == ShiftedFrame(e.frame, fs, hs, buffer, g)
    IN  Sample(type, fr, e.complexIn, win, fs, e.prevMagSpec, e.prevPhase,
               e.prevPhase2, e.prevEnergySum)

Engine ==
    [frame |-> frame, prevMagSpec |-> prevMagSpec, prevPhase |-> prevPhase,
     prevPhase2 |-> prevPhase2, prevEnergySum |-> prevEnergySum,
     complexIn |-> complexIn, odfSample |-> odfSample]

\* calculateOnsetDetectionFunctionSample(buffer), buffer holding hopSize samples.
\* A frame access outside the vector, and fftw_execute on a destroyed plan, are
\* undefined: the process may crash there or go on; g is what a read outside the
\* vector yields.
CalculateOnsetDetectionFunctionSample(buffer, g) ==
    LET out == FrameAccessOutOfRange(frame, frameSize, hopSize)
        dead == onsetDetectionFunctionType \in SpectralTypes /\ plans[p] >= 1
    IN  /\ Running /\ alive
        /\ last' = "sample"
        /\ oob' = out
        /\ calls' = calls + 1
        /\ \/ /\ out \/ dead
              /\ outcome' = "crashed"
              /\ UNCHANGED <<buffers, odfSample>>
           \/ /\ outcome' = "ok"
              /\ \E e \in {Step(Engine, onsetDetectionFunctionType, window,
                                frameSize, hopSize, buffer, g)} :
                    /\ frame' = e.frame
                    /\ prevMagSpec' = e.prevMagSpec
                    /\ prevPhase' = e.prevPhase
                    /\ prevPhase2' = e.prevPhase2
                    /\ prevEnergySum' = e.prevEnergySum
                    /\ complexIn' = e.complexIn
                    /\ odfSample' = e.odfSample
              /\ UNCHANGED window
        /\ UNCHANGED <<alive, initialised, config, p, plans>>

\* ---------------------------------------------------------------- observers
\* the samples of st followed by those of buffer (hs of them)
Fed(st, buffer, hs) ==
    [k \in 1 .. Len(st) + (IF hs > 0 THEN hs ELSE 0) |->
        IF k <= Len(st) THEN st[k] ELSE buffer[k - Len(st) - 1]]

\* the reference engine follows the calls that end normally
RefReset ==
    ref' = IF ~alive' THEN FreshEngine(0, Zero)
           ELSE IF outcome' = "ok" THEN FreshEngine(frameSize', Zero)
           ELSE ref
RefStep(buffer) ==
    ref' = IF outcome' = "ok"
             THEN Step(ref, onsetDetectionFunctionType, window, frameSize, hopSize,
                       buffer, 0)
             ELSE ref

\* ------------------------------------------------------------ specifications
Buffers(hs, S) == [0 .. hs - 1 -> S]
\* what a read of frame outside the vector may yield
Stray == IF hopSize < 0 THEN Samples ELSE {0}

\* what the memory fftw_malloc returns for complexIn may hold; with an even frame
\* size performFFT writes every entry before fftw_execute reads it
Fresh(fs) == IF fs % 2 = 1 THEN Garbage ELSE {Zero}

LifeSizes == {<<1, 1>>, <<1, 2>>, <<0, 2>>, <<2, 1>>, <<1, -1>>}
LifeTypes == {EnergyDifference, ComplexSpectralDifference, UnknownType}
LifeWindows == {RectangularWindow, UnknownWindow}
LifeSamples == {-1, 0}

\* the whole life of an engine
Next ==
    \/ \E s \in LifeSizes : \E g \in Fresh(s[2]) :
          /\ Len(plans) < MaxPlans
          /\ Construct2(s[1], s[2], g)
          /\ RefReset /\ UNCHANGED stream
    \/ \E s \in LifeSizes, type \in LifeTypes, wt \in LifeWindows : \E g \in Fresh(s[2]) :
          /\ Len(plans) < MaxPlans
          /\ Construct4(s[1], s[2], type, wt, g)
          /\ RefReset /\ UNCHANGED stream
    \/ \E s \in LifeSizes : \E g \in Fresh(s[2]) :
          /\ Len(plans) < MaxPlans
          /\ Initialise2(s[1], s[2], g)
          /\ RefReset /\ UNCHANGED stream
    \/ \E s \in LifeSizes, type \in LifeTypes, wt \in LifeWindows : \E g \in Fresh(s[2]) :
          /\ Len(plans) < MaxPlans
          /\ Initialise4(s[1], s[2], type, wt, g)
          /\ RefReset /\ UNCHANGED stream
    \/ \E type \in LifeTypes :
          SetOnsetDetectionFunctionType(type) /\ UNCHANGED <<stream, ref>>
    \/ \E buffer \in Buffers(hopSize, LifeSamples), g \in Stray :
          /\ calls < MaxCalls
          /\ CalculateOnsetDetectionFunctionSample(buffer, g)
          /\ RefStep(buffer) /\ UNCHANGED stream
    \/ Destroy /\ RefReset /\ UNCHANGED stream

Spec == Init /\ [][Next]_vars

\* an engine is constructed and fed; the sizes in Zs, the metric kinds and windows
\* in Ts and Ws, the samples in S, at most n sample calls
Stream(Zs, Ts, Ws, S, n) ==
    \/ \E s \in Zs, type \in Ts, wt \in Ws : \E g \in Fresh(s[2]) :
          /\ Construct4(s[1], s[2], type, wt, g)
          /\ UNCHANGED <<stream, ref>>
    \/ \E type \in Ts :
          SetOnsetDetectionFunctionType(type) /\ UNCHANGED <<stream, ref>>
    \/ \E buffer \in Buffers(hopSize, S), g \in Stray :
          /\ calls < n
          /\ CalculateOnsetDetectionFunctionSample(buffer, g)
          /\ stream' = Fed(stream, buffer, hopSize)
          /\ UNCHANGED ref

\* the frame assembler and the time-domain metrics
FrameTypes == {EnergyEnvelope, EnergyDifference}
NextFrame == Stream(Sizes, FrameTypes, {RectangularWindow}, Samples, MaxFrameCalls)
SpecFrame == Init /\ [][NextFrame]_vars

\* silence, under every metric kind and window
NextSilence == Stream(Sizes, Types, WindowTypes, {0}, MaxSilentCalls)
SpecSilence == Init /\ [][NextSilence]_vars

\* every metric kind, on samples of either sign
MetricWindows == {RectangularWindow, HammingWindow}
MetricSizes == {<<1, 1>>, <<1, 2>>, <<2, 2>>, <<1, 3>>, <<0, 2>>}
NextMetric == Stream(MetricSizes, Types, MetricWindows, {-1, 1}, MaxMetricCalls)
SpecMetric == Init /\ [][NextMetric]_vars

\* repeated frames under the difference metrics
RepeatTypes == {SpectralDifference, PhaseDeviation, ComplexSpectralDifference}
RepeatSizes == {<<1, 2>>, <<2, 2>>, <<1, 3>>}
NextRepeat == Stream(RepeatSizes, RepeatTypes, {RectangularWindow}, {-1, 1}, MaxRepeatCalls)
SpecRepeat == Init /\ [][NextRepeat]_vars

\* ------------------------------------------------------------------ properties
ValidSizes == 1 <= hopSize /\ hopSize <= frameSize

\* the latest sample call ended normally on an engine with valid sizes
Sampled == alive /\ last = "sample" /\ outcome = "ok" /\ ValidSizes

\* a step that is a sample call ending normally
SampleStep == last' = "sample" /\ outcome' = "ok"

NonZero(f) == \E i \in DOMAIN f : f[i] # 0

\* the last n samples of n zeros followed by st, indexed from 0
Trailing(n, st) ==
    LET padded == [k \in 1 .. n + Len(st) |-> IF k <= n THEN 0 ELSE st[k - n]]
    IN  [i \in 0 .. n - 1 |-> padded[Len(st) + 1 + i]]

\* C1: with 1 <= hopSize <= frameSize, after any number of sample calls the frame
\* holds the trailing frameSize samples of frameSize zeros followed by all the
\* chunks supplied since the engine was configured, oldest first.
FrameIsTrailingSamples ==
    (alive /\ outcome = "ok" /\ ValidSizes) => frame = Trailing(frameSize, stream)

\* the frame after enough calls to have dropped samples: two samples per call into a
\* frame of three, the oldest sample kept being non-zero
FrameFilledAndShifted ==
    /\ Sampled /\ hopSize = 2 /\ frameSize = 3
    /\ calls >= 2
    /\ Len(stream) > frameSize
    /\ frame[0] # 0 /\ frame[0] # frame[1]

\* C2 (as the specification states it): a configure call with hopSize > frameSize
\* or a non-positive size fails, and leaves the engine not marked initialised.
InvalidSizesRejected ==
    (alive /\ last \in {"construct", "initialise"} /\ ~ValidSizes)
        => (outcome = "threw" /\ ~initialised)

\* C3 (as the specification states it): after a configure call, every sample call
\* returns what a freshly constructed engine with the same configuration returns
\* for the chunks supplied since.
OutputsAsOnFreshEngine == Sampled => odfSample = ref.odfSample

\* the chunk of the call that made this step is the chunk of the call before it
SameChunkAgain ==
    /\ Len(stream) >= hopSize
    /\ \A k \in 1 .. hopSize :
          stream'[Len(stream') - hopSize + k] = stream[Len(stream) - hopSize + k]

\* two consecutive sample calls ending normally, with identical chunks and
\* identical frames
RepeatedFrameStep ==
    /\ last = "sample" /\ outcome = "ok" /\ SampleStep
    /\ ValidSizes
    /\ SameChunkAgain
    /\ frame' = frame

\* C4 (as the specification states it): the second of two consecutive calls with
\* identical chunks and frames returns 0 under Spectral Difference and under
\* Complex Spectral Difference.
RepeatedFrameGivesZero ==
    [][(RepeatedFrameStep
          /\ onsetDetectionFunctionType \in {SpectralDifference, ComplexSpectralDifference})
        => odfSample' = 0]_vars

\* C4 (amended): the second of two consecutive calls with identical chunks and
\* frames returns 0 under Spectral Difference; under Complex Spectral Difference
\* it returns 0 when, in every bin of non-zero magnitude, the phase stored two
\* calls back equals the phase stored by the first of the two calls.
RepeatedFrameGivesZeroWhenPhaseSteady ==
    [][(RepeatedFrameStep
          /\ \/ onsetDetectionFunctionType = SpectralDifference
             \/ /\ onsetDetectionFunctionType = ComplexSpectralDifference
                /\ \A i \in DOMAIN prevMagSpec :
                      prevMagSpec[i] # 0 => prevPhase2[i] = prevPhase[i])
        => odfSample' = 0]_vars

\* a third identical frame of phase pi under Complex Spectral Difference: the
\* call returns 0 on magnitudes that are not
ThirdIdenticalFrameGivesZero ==
    /\ Sampled /\ onsetDetectionFunctionType = ComplexSpectralDifference
    /\ calls = 3
    /\ hopSize = 2 /\ frameSize = 2
    /\ \A k \in 1 .. 2 * hopSize : stream[k + hopSize] = stream[k]
    /\ \E i \in DOMAIN prevMagSpec : prevMagSpec[i] # 0 /\ prevPhase[i] = Pi
    /\ odfSample = 0

\* C5 (as the specification states it): with valid sizes and all chunks zero, every
\* sample call returns 0 under the ten metric kinds and 1 under any other kind.
SilenceGivesZero ==
    Sampled =>
        odfSample = IF onsetDetectionFunctionType \in EnergyEnvelope ..
                         HighFrequencySpectralDifferenceHWR THEN 0 ELSE 1

\* C6: setOnsetDetectionFunctionType leaves the frame, the magnitude and phase
\* histories, the energy sum, the window and both sizes as they were.
SetTypeKeepsHistory ==
    [][last' = "setType" =>
          UNCHANGED <<frame, prevMagSpec, prevPhase, prevPhase2, prevEnergySum,
                      window, hopSize, frameSize>>]_vars

\* the metric kind was set on an engine holding a frame and magnitude and phase
\* history
TypeSetOnUsedEngine ==
    /\ alive /\ last = "setType"
    /\ onsetDetectionFunctionType = EnergyEnvelope
    /\ NonZero(frame) /\ NonZero(prevMagSpec) /\ NonZero(prevPhase)

\* sum of the squares of the entries of f
SumOfSquares(f) == SumOver([i \in DOMAIN f |-> f[i] * f[i]], DOMAIN f)

\* C7: under Energy Difference a sample call returns max(0, E - P), E the sum of
\* squares of the updated frame and P the stored energy sum, and stores E; the
\* first call after configure returns E, and the result is never negative.
EnergyDifferenceIsClampedRise ==
    [][(SampleStep /\ onsetDetectionFunctionType = EnergyDifference)
        => LET E == SumOfSquares(frame')
               P == prevEnergySum
           IN  /\ odfSample' = (IF E - P > 0 THEN E - P ELSE 0)
               /\ prevEnergySum' = E
               /\ odfSample' >= 0
               /\ (calls = 0 => odfSample' = E)
               /\ (E < P => odfSample' = 0)]_vars

\* the frame energy fell to nothing after sound: Energy Difference returned 0
EnergyFellToZero ==
    /\ Sampled /\ onsetDetectionFunctionType = EnergyDifference
    /\ hopSize = 1 /\ frameSize = 1
    /\ calls = 2 /\ stream[1] # 0 /\ stream[2] = 0
    /\ odfSample = 0 /\ prevEnergySum = 0

\* C8 (as the specification states it): no plan is released twice, the plan in use
\* by a sample call is live, and no plan is live once the engine is destroyed.
PlansReleasedOnce ==
    /\ \A k \in DOMAIN plans : plans[k] <= 1
    /\ (alive /\ last = "sample") =>
          (p \in DOMAIN plans /\ plans[p] = 0
             /\ \A k \in DOMAIN plans : k # p => plans[k] = 1)
    /\ (last = "destroy") => \A k \in DOMAIN plans : plans[k] = 1

\* the magnitudes and phases of the transform of the input the call left
MagnitudesNow == FullMagSpec(ForwardDFT(complexIn', frameSize), frameSize)
PhasesNow == PhaseSpec(ForwardDFT(complexIn', frameSize), frameSize)

\* C9: a sample call changes only the history of its metric: none under Energy
\* Envelope and an unrecognised kind; the energy sum under Energy Difference; the
\* magnitudes (set to the current ones) under the five magnitude metrics; the two
\* phase histories (two-back := previous, previous := current) under Phase
\* Deviation; magnitudes and both phase histories under the two complex metrics.
EachMetricUpdatesOwnHistory ==
    [][SampleStep =>
        LET type == onsetDetectionFunctionType
            mags == type \in MagnitudeOnlyTypes \cup ComplexTypes
            phases == type \in {PhaseDeviation} \cup ComplexTypes
        IN  /\ IF mags THEN prevMagSpec' = MagnitudesNow ELSE UNCHANGED prevMagSpec
            /\ IF phases
                 THEN prevPhase' = PhasesNow /\ prevPhase2' = prevPhase
                 ELSE UNCHANGED <<prevPhase, prevPhase2>>
            /\ IF type = EnergyDifference
                 THEN prevEnergySum' = SumOfSquares(frame')
                 ELSE UNCHANGED prevEnergySum]_vars

\* Phase Deviation ran on an engine holding magnitude history and moved a
\* non-zero previous phase to the two-back history
PhaseDeviationMovedHistory ==
    /\ Sampled /\ onsetDetectionFunctionType = PhaseDeviation
    /\ calls = 2
    /\ NonZero(prevMagSpec) /\ NonZero(prevPhase2) /\ NonZero(prevPhase)

\* C10 (as the specification states it): after a run of the transform stage every
\* entry of the transform input is frame[j]*window[j] with imaginary part 0, for
\* distinct j, the halves of the windowed frame swapped.
TransformInputFullyWritten ==
    (Sampled /\ onsetDetectionFunctionType \in SpectralTypes) =>
        \E half \in {frameSize \div 2, frameSize - (frameSize \div 2)} :
            LET src == [i \in 0 .. frameSize - 1 |-> (i + half) % frameSize]
            IN
              \A i \in 0 .. frameSize - 1 :
                complexIn[i] = [re |-> frame[src[i]] * window[src[i]], im |-> 0]

\* C11 (as the specification states it): on an engine whose sizes initialise
\* accepted, no sample call uses frame at a negative index or at an index
\* >= frameSize.
FrameAccessesInRange == (alive /\ initialised /\ last = "sample") => ~oob

====
